---- MODULE Spec2Model ----
(***************************************************************************)
(* The self-built stdio JSON-RPC runtime of the Jira adapter               *)
(* (src/mcp/jira/index.js) and of the Confluence adapter                   *)
(* (src/unnamed/part_001): the newline framer, the request dispatcher,     *)
(* the tool handlers as far as they validate and call the backend, the     *)
(* Confluence response cache and search chain, and the two normalizers.    *)
(*                                                                         *)
(* One step of the model is one macrotask of the Node.js event loop: an    *)
(* async function runs without interruption until it awaits a promise      *)
(* that only I/O can settle, so a 'data' event runs the framer and then    *)
(* the line loop up to the first line that has to wait for the backend,    *)
(* and the completion of a backend call runs the rest of that line and     *)
(* the lines after it up to the next such wait.                            *)
(***************************************************************************)
EXTENDS Integers, Sequences, FiniteSets, TLC

VARIABLES
    adapter,    \* which server runs: "jira", "confluence", or "legacy",
                \* the Jira server of version 1.2.0
    exitCode,   \* -1 while the process runs, else its exit status
    now,        \* Date.now(), in milliseconds since the start
    buffer,     \* `buffer` of start(): the text after the last newline
    tasks,      \* the suspended 'data' handlers, each awaiting one backend call
    out,        \* the lines written by console.log, in order
    cache,      \* this.cache of the Confluence adapter: key -> [data, timestamp, mapped]
    remote,     \* the backend's resource: its version, bumped by a mutation
    received,   \* history: all the text read from stdin so far
    emitted,    \* history: the non-blank lines the loop was given, in order
    log,        \* history: lookup, delete, request, complete and set, by line
    ticks,      \* history: how often the clock has advanced
    doc,        \* the document given to the normalizer
    text,       \* what the normalizer made of it
    env,        \* process.env: the base URL and the token, each "absent",
                \* "empty" or "set"
    listening   \* start() has registered the handlers of stdin

vars == <<adapter, exitCode, now, buffer, tasks, out, cache, remote,
          received, emitted, log, ticks, doc, text, env, listening>>

-----------------------------------------------------------------------------
(* Bounds of the model *)

\* most characters of input in a run of SpecFramer
MaxStream == 5
\* most lines of input in a run of Spec
MaxLines == 2
\* most lines of input in a run of SpecCache
MaxReads == 2
\* most lines of input in a run of SpecMutate
MaxCalls == 3
\* most clock advances in a run of SpecCache
MaxTicks == 2
\* most lines of input in a run of SpecOrder
MaxOrder == 3
\* most lines of input in a run of SpecSearch
MaxSearches == 1
\* most sentences of a document in a run of SpecText
MaxSentences == 3
\* most lines of input in a run of SpecShared
MaxShared == 3
\* most lines of input in a run of SpecChunk
MaxChunk == 3

-----------------------------------------------------------------------------
(* Text.  A character of the model is a piece of input text that no chunk  *)
(* boundary falls inside: a newline, a blank, the whole JSON text of a     *)
(* message of the catalogue, its first or second half (cut inside a token, *)
(* so that only the two halves side by side are JSON), or text that is no  *)
(* JSON at all.                                                            *)

NL == <<"nl", 0>>
SP == <<"sp", 0>>
BAD == <<"bad", 0>>
Js(i) == <<"js", i>>
Hd(i) == <<"hd", i>>
Tl(i) == <<"tl", i>>

\* String.prototype.split('\n'): the fragments between newlines, at least one
RECURSIVE Split(_)
Split(s) ==
    IF s = <<>> THEN << <<>> >>
    ELSE LET r == Split(Tail(s)) IN
         IF Head(s) = NL THEN << <<>> >> \o r
         ELSE << <<Head(s)>> \o Head(r) >> \o Tail(r)

\* String.prototype.trim(): without the blanks at both ends
RECURSIVE TrimLeft(_)
TrimLeft(s) == IF s # <<>> /\ Head(s) = SP THEN TrimLeft(Tail(s)) ELSE s

RECURSIVE TrimRight(_)
TrimRight(s) ==
    IF s # <<>> /\ s[Len(s)] = SP THEN TrimRight(SubSeq(s, 1, Len(s) - 1)) ELSE s

Trim(s) == TrimRight(TrimLeft(s))

\* the mutant of FrameBuffer: the incomplete last fragment is dropped
FrameBufferDropsPartial(buf, data) == <<>>

\* buffer += data; lines = buffer.split('\n'); buffer = lines.pop() || ''
FrameBuffer(buf, data) ==
    LET parts == Split(buf \o data) IN parts[Len(parts)]

\* the fragments before the last one that pass `if (!line.trim()) continue`
FrameLines(buf, data) ==
    LET parts == Split(buf \o data) IN
    SelectSeq(SubSeq(parts, 1, Len(parts) - 1), LAMBDA l : Trim(l) # <<>>)

\* the whole of String.prototype.trim(): newlines are white space too
RECURSIVE TrimAll(_)
TrimAll(s) ==
    IF s # <<>> /\ Head(s) \in {SP, NL} THEN TrimAll(Tail(s))
    ELSE IF s # <<>> /\ s[Len(s)] \in {SP, NL}
         THEN TrimAll(SubSeq(s, 1, Len(s) - 1))
    ELSE s

\* the loop of version 1.2.0 keeps no buffer: data.trim().split('\n'), and
\* the fragments that pass `if (!line.trim()) continue`
LegacyLines(data) ==
    SelectSeq(Split(TrimAll(data)), LAMBDA l : Trim(l) # <<>>)

-----------------------------------------------------------------------------
(* The messages a line can decode to.  id and method are kept as the JSON   *)
(* text of the field ("absent" when the field is missing); args is the set  *)
(* of arguments the message supplies with a truthy value; value is the kind *)
(* of JSON value the line holds; query is the kind of the `query` argument  *)
(* of a search.                                                             *)

Msg(id, mkind, method, pkind, name, args) ==
    [id |-> id, mkind |-> mkind, method |-> method,
     pkind |-> pkind, name |-> name, args |-> args,
     value |-> "object", query |-> "none"]

\* a line that holds JSON, but no object: null, a number, an array.  Reading
\* .id and .method of a number or an array gives undefined.
Value(kind) ==
    [Msg("absent", "absent", "undefined", "absent", "", {}) EXCEPT !.value = kind]

\* a tools/call of search_pages with a query of the given kind
Search(id, query) ==
    [Msg(id, "string", "tools/call", "object", "search_pages",
         IF query = "none" THEN {} ELSE {"query"}) EXCEPT !.query = query]

Catalogue == <<
    Msg("1", "string", "initialize", "absent", "", {}),
    Msg("2", "string", "tools/list", "absent", "", {}),
    Msg("3", "string", "tools/call", "object", "get_issue", {"issueKey"}),
    Msg("4", "string", "tools/call", "object", "get_issue", {}),
    Msg("5", "string", "tools/call", "object", "get_page", {"pageId"}),
    Msg("6", "string", "tools/call", "object", "get_page", {}),
    Msg("7", "string", "tools/call", "object", "update_page",
        {"pageId", "title", "content", "version"}),
    Msg("absent", "string", "notifications/initialized", "absent", "", {}),
    Msg("9", "string", "initialized", "absent", "", {}),
    Msg("absent", "string", "tools/list", "absent", "", {}),
    Msg("absent", "string", "resources/list", "absent", "", {}),
    Msg("12", "string", "resources/list", "absent", "", {}),
    Msg("13", "number", "5", "absent", "", {}),
    Msg("14", "string", "tools/call", "object", "delete_page", {"pageId"}),
    Msg("15", "string", "tools/call", "object", "create_page",
        {"spaceKey", "title", "content"}),
    Msg("16", "string", "tools/call", "object", "add_page_comment",
        {"pageId", "comment"}),
    Msg("17", "string", "tools/call", "object", "add_page_label",
        {"pageId", "labels"}),
    Msg("18", "string", "tools/call", "null", "", {}),
    Msg("0", "string", "tools/list", "absent", "", {}),
    Msg("\"\"", "string", "initialize", "absent", "", {}),
    Msg("21", "absent", "undefined", "absent", "", {}),
    Value("null"),
    Value("number"),
    Value("array"),
    Search("25", "title"),
    Search("26", "spaceTitle"),
    Search("27", "spaceOnly"),
    Search("28", "invalid"),
    Search("29", "none"),
    Search("30", "text"),
    Search("31", "invalid500"),
    Msg("0", "string", "resources/list", "absent", "", {}),
    Msg("33", "string", "tools/call", "object", "get_spaces", {})
>>

\* JSON.parse(line): the index of the message, 0 for a SyntaxError.  Blanks
\* around a JSON text are allowed, anything else beside it is not.
Parse(line) ==
    LET t == Trim(line) IN
    IF \E i \in 1..Len(Catalogue) : t = <<Js(i)>> \/ t = <<Hd(i), Tl(i)>>
    THEN CHOOSE i \in 1..Len(Catalogue) : t = <<Js(i)>> \/ t = <<Hd(i), Tl(i)>>
    ELSE 0

-----------------------------------------------------------------------------
(* Error texts.  A message is a sequence of pieces of text; includes() is   *)
(* decided by the words each piece holds.                                   *)

MarkersIn(piece) ==
    CASE piece = "Unknown method: " -> {"Unknown method"}
      [] piece = "Tool execution failed: " -> {"Tool execution failed"}
      [] piece \in {"issueKey is required", "jql is required",
                    "projectKey, issueType, and summary are required",
                    "issueKey and fields are required",
                    "issueKey and comment are required",
                    "projectKey is required"} -> {"required"}
      [] piece = "API Error: 400 - {\"errors\":{\"summary\":\"Field is required\"}}"
           -> {"required"}
      [] piece = "API Error: 500 - {\"message\":\"Internal Server Error\"}"
           -> {"500"}
      \* the text of the query "invalid500", quoted in the validation's error
      [] piece = "invalid500" -> {"500"}
      [] OTHER -> {}

\* String.prototype.includes(marker)
Includes(msg, marker) == \E i \in 1..Len(msg) : marker \in MarkersIn(msg[i])

ParseErrorCode == -32700
MethodNotFoundCode == -32601
InvalidParamsCode == -32602
InternalErrorCode == -32603
ToolExecutionCode == -32000

\* the catch block of start(): the code is chosen by what the text includes
ErrorCode(a, msg) ==
    IF Includes(msg, "Unknown method") THEN MethodNotFoundCode
    ELSE IF Includes(msg, "required") \/ Includes(msg, "Invalid arguments")
         THEN InvalidParamsCode
    ELSE IF a = "jira" /\ Includes(msg, "Tool execution failed")
         THEN ToolExecutionCode
    ELSE InternalErrorCode

-----------------------------------------------------------------------------
(* The tool tables of the two adapters *)

\* the names tools/list returns
ListedTools(a) ==
    IF a \in {"jira", "legacy"}
    THEN {"get_projects", "get_issue", "search_issues", "create_issue",
          "update_issue", "get_issue_types", "add_comment", "get_current_user",
          "get_labels", "get_fix_versions", "get_components"}
    ELSE {"get_spaces", "get_page", "search_pages", "create_page", "update_page",
          "get_child_pages", "get_space_pages", "get_space_details"}

\* the names handleToolCall has a case for
HandledTools(a) ==
    IF a \in {"jira", "legacy"}
    THEN {"get_projects", "get_issue", "search_issues", "create_issue",
          "update_issue", "get_issue_types", "add_comment", "get_current_user",
          "get_labels", "get_fix_versions", "get_components"}
    ELSE {"get_spaces", "get_page", "search_pages", "create_page", "update_page",
          "delete_page", "get_page_history", "get_child_pages",
          "get_page_comments", "add_page_comment", "get_space_pages",
          "get_page_labels", "add_page_label", "get_page_attachments",
          "get_recent_pages", "get_my_pages", "get_pages_by_label",
          "get_page_templates", "get_space_details"}

\* inputSchema.required of a listed tool
RequiredArgs(a, name) ==
    IF a \in {"jira", "legacy"}
    THEN CASE name = "get_issue" -> {"issueKey"}
           [] name = "search_issues" -> {"jql"}
           [] name = "create_issue" -> {"projectKey", "issueType", "summary"}
           [] name = "update_issue" -> {"issueKey", "fields"}
           [] name = "add_comment" -> {"issueKey", "comment"}
           [] name \in {"get_fix_versions", "get_components"} -> {"projectKey"}
           [] OTHER -> {}
    ELSE CASE name \in {"get_page", "get_child_pages"} -> {"pageId"}
           [] name = "search_pages" -> {"query"}
           [] name = "create_page" -> {"spaceKey", "title", "content"}
           [] name = "update_page" -> {"pageId", "title", "content", "version"}
           [] name \in {"get_space_pages", "get_space_details"} -> {"spaceKey"}
           [] OTHER -> {}

\* the arguments handleToolCall tests before it calls the handler:
\* the `if (!args.x) throw` of the Jira cases; the Confluence cases have none
CheckedArgs(a, name) ==
    IF a = "jira"
    THEN CASE name = "get_issue" -> {"issueKey"}
           [] name = "search_issues" -> {"jql"}
           [] name = "create_issue" -> {"projectKey", "issueType", "summary"}
           [] name = "update_issue" -> {"issueKey", "fields"}
           [] name = "add_comment" -> {"issueKey", "comment"}
           [] name \in {"get_fix_versions", "get_components"} -> {"projectKey"}
           [] OTHER -> {}
    ELSE {}

\* the text of the Error a failed test throws
RequiredText(name) ==
    CASE name = "get_issue" -> "issueKey is required"
      [] name = "search_issues" -> "jql is required"
      [] name = "create_issue" -> "projectKey, issueType, and summary are required"
      [] name = "update_issue" -> "issueKey and fields are required"
      [] name = "add_comment" -> "issueKey and comment are required"
      [] name \in {"get_fix_versions", "get_components"} -> "projectKey is required"

\* the HTTP method of the request the handler makes
Http(a, name) ==
    IF a \in {"jira", "legacy"}
    THEN CASE name \in {"create_issue", "add_comment"} -> "POST"
           [] name = "update_issue" -> "PUT"
           [] OTHER -> "GET"
    ELSE CASE name \in {"create_page", "add_page_comment", "add_page_label"} -> "POST"
           [] name = "update_page" -> "PUT"
           [] name = "delete_page" -> "DELETE"
           [] name \in HandledTools(a) \ {"search_pages"} -> "GET"

\* the endpoint: a template literal over the arguments, "undefined" for a
\* missing one
Endpoint(a, m) ==
    CASE m.name = "get_issue" ->
            IF "issueKey" \in m.args THEN "/issue/KEY-1" ELSE "/issue/undefined"
      [] m.name = "get_spaces" -> "/space?limit=25"
      [] m.name = "get_page" ->
            IF "pageId" \in m.args THEN "/content/P1?expand=body.storage,version"
            ELSE "/content/undefined?expand=body.storage,version"
      [] m.name \in {"update_page", "delete_page"} ->
            IF "pageId" \in m.args THEN "/content/P1" ELSE "/content/undefined"
      [] m.name \in {"create_page", "add_page_comment"} -> "/content"
      [] m.name = "add_page_label" -> "/content/P1/label"
      [] OTHER -> "/" \o m.name

\* handlers that fail before they reach makeRequest: labels.map of undefined
ThrowsBeforeRequest(a, m) ==
    a = "confluence" /\ m.name = "add_page_label" /\ "labels" \notin m.args

-----------------------------------------------------------------------------
(* The response cache of the Confluence adapter *)

\* this.cacheTimeout = 5 * 60 * 1000
cacheTimeout == 5 * 60 * 1000

\* getCacheKey(endpoint, {method, body})
getCacheKey(endpoint, http) ==
    <<endpoint, http, IF http \in {"GET", "DELETE"} THEN "null" ELSE "body">>

\* the mutant of Fresh: an entry of age cacheTimeout still counts
FreshInclusive(c, key, t) ==
    key \in DOMAIN c /\ t - c[key].timestamp <= cacheTimeout

\* cached && Date.now() - cached.timestamp < this.cacheTimeout
Fresh(c, key, t) ==
    key \in DOMAIN c /\ t - c[key].timestamp < cacheTimeout

\* the mutant of getFromCache: a stale entry is left in the map
getFromCacheKeepsStale(c, key, t) ==
    [hit |-> Fresh(c, key, t),
     data |-> IF Fresh(c, key, t) THEN c[key].data ELSE 0,
     mapped |-> IF Fresh(c, key, t) THEN c[key].mapped ELSE 0,
     cache |-> c]

\* getFromCache(key): the data of a fresh entry; otherwise the key is deleted.
\* The data is the object itself, not a copy: `mapped` goes with it
getFromCache(c, key, t) ==
    [hit |-> Fresh(c, key, t),
     data |-> IF Fresh(c, key, t) THEN c[key].data ELSE 0,
     mapped |-> IF Fresh(c, key, t) THEN c[key].mapped ELSE 0,
     cache |-> IF Fresh(c, key, t) THEN c
               ELSE [k \in DOMAIN c \ {key} |-> c[k]]]

\* setToCache(key, data): the entry holds the object it is given.  Of the
\* object the model keeps `data`, the version of the backend it was parsed
\* from, and `mapped`, the number of times its `results` have been replaced
\* by their compact form since (0: the object is as the backend delivered it)
setToCache(c, key, data, t) ==
    [k \in DOMAIN c \cup {key} |->
        IF k = key THEN [data |-> data, timestamp |-> t, mapped |-> 0] ELSE c[k]]

\* the mutant of Cacheable: every request goes through the cache
CacheableAll(a, http) == a = "confluence"

\* makeRequest: `if (method === "GET")`, around the lookup and around the store
Cacheable(a, http) == a = "confluence" /\ http = "GET"

\* the handlers that assign result.results = result.results.map(...) on the
\* object makeRequest resolved with (getPage builds a new object)
MapsResults(a, name) ==
    /\ a = "confluence"
    /\ name \in {"get_spaces", "get_child_pages", "search_pages",
                 "get_page_history", "get_page_comments", "get_space_pages",
                 "get_page_labels", "get_page_attachments", "get_recent_pages",
                 "get_page_templates"}

\* that assignment, seen from the cache: the object under `key` is the one
\* the handler holds
mapResults(c, key) ==
    IF key \in DOMAIN c THEN [c EXCEPT ![key].mapped = @ + 1] ELSE c

-----------------------------------------------------------------------------
(* The dispatcher.  st is the part of the state one macrotask works on:     *)
(* [out, cache, log, task, next], next being what the line loop does after  *)
(* the line: "continue", "suspend" (the handler awaits the backend) or      *)
(* "throw" (an error leaves the 'data' handler).                            *)

NoTask == [cur |-> 0]

IdFalsy(id) == id \in {"absent", "null", "0", "\"\"", "false"}

\* requestId: request.id || null (Jira),
\* request.id !== undefined ? request.id : null (Confluence),
\* request.id as it is (version 1.2.0)
RequestId(a, m) ==
    IF a = "jira" THEN (IF IdFalsy(m.id) THEN "null" ELSE m.id)
    ELSE IF a = "legacy" THEN m.id
    ELSE (IF m.id = "absent" THEN "null" ELSE m.id)

StartsWithNotifications(method) ==
    method \in {"notifications/initialized", "notifications/cancelled"}

\* request.method && (request.method.startsWith('notifications/') ||
\* request.method === 'initialized'): only the Confluence loop has the test
IsNotification(a, m) ==
    /\ a = "confluence"
    /\ m.mkind = "string"
    /\ (StartsWithNotifications(m.method) \/ m.method = "initialized")

\* the same test on a method that is a number: it is truthy and has no
\* startsWith, and the TypeError is thrown outside every try block
NotificationTestThrows(a, m) == a = "confluence" /\ m.mkind = "number"

\* the mutant of Route: tools/list goes the way of tools/call
RouteListAsCall(m) ==
    IF m.mkind = "string" /\ m.method \in {"initialize", "tools/call"}
    THEN m.method
    ELSE IF m.mkind = "string" /\ m.method = "tools/list" THEN "tools/call"
    ELSE "unknown"

\* the switch of handleRequest
Route(m) ==
    IF m.mkind = "string" /\ m.method \in {"initialize", "tools/list", "tools/call"}
    THEN m.method
    ELSE "unknown"

Ev(ev, n, key, t, ok) == [ev |-> ev, src |-> n, key |-> key, t |-> t, ok |-> ok]

Note(st, e) == [st EXCEPT !.log = Append(@, e)]

Emit(st, r) == [st EXCEPT !.out = Append(@, r)]

\* console.log of {jsonrpc, id, result}; Confluence: `if (requestId !== null)`
Respond(st, a, n, m, result, isError, data, value) ==
    IF a = "confluence" /\ RequestId(a, m) = "null" THEN st
    ELSE Emit(st, [src |-> n, id |-> RequestId(a, m), kind |-> "result",
                   code |-> 0, data |-> data, result |-> result,
                   isError |-> isError, value |-> value, tag |-> "", mapped |-> 0])

\* the catch block of start() of version 1.2.0: it lies around the whole
\* line loop, so the loop is left; the reply has id null and code -32603
LegacyFailed(st, n, msg) ==
    [Emit(st, [src |-> n, id |-> "null", kind |-> "error",
               code |-> InternalErrorCode, data |-> msg, result |-> "",
               isError |-> FALSE, value |-> 0, tag |-> "", mapped |-> 0])
        EXCEPT !.next = "stop"]

\* the catch block of start(): console.log of {jsonrpc, id, error}
Fail(st, a, n, m, msg) ==
    IF a = "legacy" THEN LegacyFailed(st, n, msg)
    ELSE Emit(st, [src |-> n, id |-> RequestId(a, m), kind |-> "error",
                   code |-> ErrorCode(a, msg), data |-> msg, result |-> "",
                   isError |-> FALSE, value |-> 0, tag |-> "", mapped |-> 0])

\* the catch block of handleToolCall: Jira throws again with a prefix,
\* Confluence and version 1.2.0 return a result marked isError (each with a
\* prefix of its own before the text of the error)
ToolFailed(st, a, n, m, msg) ==
    IF a = "jira" THEN Fail(st, a, n, m, <<"Tool execution failed: ">> \o msg)
    ELSE Respond(st, a, n, m, "content", TRUE, <<"Error: ">> \o msg, 0)

\* the mutant of ParseFailed: a malformed line is reported as an internal error
ParseFailedAsInternal(st, n) ==
    Emit(st, [src |-> n, id |-> "null", kind |-> "error", code |-> InternalErrorCode,
              data |-> <<"Unexpected token">>, result |-> "",
              isError |-> FALSE, value |-> 0, tag |-> "", mapped |-> 0])

\* the catch block of the try around JSON.parse and the read of request.id:
\* a SyntaxError of JSON.parse, or the TypeError of reading .id of null
ParseFailed(st, n) ==
    Emit(st, [src |-> n, id |-> "null", kind |-> "error", code |-> ParseErrorCode,
              data |-> <<"Unexpected token">>, result |-> "",
              isError |-> FALSE, value |-> 0, tag |-> "", mapped |-> 0])

\* the handler after `await this.makeRequest(...)` resolved with the object
\* that lies under `key` (if the request goes through the cache): it maps
\* the results in place where it does, and the reply is written
Resolved(st, a, n, m, key, data) ==
    LET before == IF key \in DOMAIN st.cache THEN st.cache[key].mapped ELSE 0
        r == Respond(st, a, n, m, "content", FALSE, <<>>, data)
        said == IF Len(r.out) = Len(st.out) THEN r
                ELSE [r EXCEPT !.out[Len(r.out)].mapped = before + 1]
    IN  IF MapsResults(a, m.name)
        THEN [said EXCEPT !.cache = mapResults(@, key)]
        ELSE r

\* makeRequest up to the point where it awaits the response
MakeRequest(st, a, n, m, rest, t) ==
    LET http == Http(a, m.name)
        key == getCacheKey(Endpoint(a, m), http)
        look == getFromCache(st.cache, key, t)
        gone == DOMAIN st.cache \ DOMAIN look.cache
        seen == Note(st, Ev("lookup", n, key, t, look.hit))
        swept == IF gone = {} THEN seen ELSE Note(seen, Ev("delete", n, key, t, TRUE))
        task == [cur |-> n, rest |-> rest, key |-> key, http |-> http,
                 stage |-> "tool", errs |-> <<>>, first |-> <<>>]
    IN  IF Cacheable(a, http)
        THEN IF look.hit
             THEN Resolved(seen, a, n, m, key, look.data)
             ELSE [Note(swept, Ev("request", n, key, t, TRUE))
                      EXCEPT !.cache = look.cache, !.task = task, !.next = "suspend"]
        ELSE [Note(st, Ev("request", n, key, t, TRUE))
                 EXCEPT !.task = task, !.next = "suspend"]

\* what the backend answers: 2xx with a JSON body, or a status >= 400
Outcomes == {"ok", "e404", "e400"}

\* the text of the Error makeRequest rejects with
BackendDetail(outcome) ==
    CASE outcome = "e400" ->
            "API Error: 400 - {\"errors\":{\"summary\":\"Field is required\"}}"
      [] outcome = "e500" ->
            "API Error: 500 - {\"message\":\"Internal Server Error\"}"
      \* a body that JSON.parse throws on
      [] outcome = "badjson" -> "Failed to parse response: Unexpected token"
      \* req.on('error')
      [] outcome = "net" -> "Request failed: socket hang up"
      [] OTHER -> "API Error: 404 - {\"errorMessages\":[\"Not Found\"]}"

-----------------------------------------------------------------------------
(* The search chain of the Confluence adapter.  A query is one of            *)
(*   "title"       title ~ "x"                                               *)
(*   "text"        text ~ "x"                                                *)
(*   "spaceTitle"  space = "DEV" AND title ~ "x"                             *)
(*   "spaceOnly"   space = "DEV"                                             *)
(*   "invalid"     space = "DEV" AND AND title ~ "x"                         *)
(*   "invalid500"  space = "DEV" AND AND title ~ "500"                       *)
(*   "none"        the argument is missing: undefined                        *)
(* A job is the invocation at one of its awaits: the line n, its message m,  *)
(* the lines after it, the time, the stage ("s1" the query as given, "d1"    *)
(* the simple search tried inside it, "s2" space and title as parameters,    *)
(* "s3" the simple search), the reasons collected so far and the error of    *)
(* "s1" that is held while "d1" runs.                                        *)

\* validateAndOptimizeCQL: the patterns it rejects (here: AND AND)
RejectedCQL(query) == query \in {"invalid", "invalid500"}

\* query.toLowerCase().includes('space'), and both regular expressions match
SplitsToSpaceAndTitle(query) == query \in {"spaceTitle", "invalid", "invalid500"}

\* the endpoint of a stage's request; limit is 10, the default
SearchEndpoint(stage, query) ==
    CASE stage = "s2" /\ query = "invalid500" ->
            "/content?spaceKey=DEV&title=500&limit=10&type=page"
      [] stage = "s2" -> "/content?spaceKey=DEV&title=x&limit=10&type=page"
      [] query = "invalid500" -> "/content/search?cql=title%20~%20%22500%22&limit=10"
      [] query = "text" -> "/content/search?cql=text%20~%20%22x%22&limit=10"
      [] stage = "s1" /\ query = "spaceTitle" ->
            "/content/search?cql=space%20%3D%20%22DEV%22%20AND%20title%20~%20%22x%22&limit=10"
      [] stage = "s1" /\ query = "spaceOnly" ->
            "/content/search?cql=space%20%3D%20%22DEV%22&limit=10"
      [] stage \in {"d1", "s3"} /\ query = "spaceOnly" ->
            "/content/search?cql=text%20~%20%22space%20%20DEV%22&limit=10"
      [] OTHER -> "/content/search?cql=title%20~%20%22x%22&limit=10"

\* the mutant of SearchTag: no result says which search produced it
SearchTagNone(stage) == ""

\* what the returned object has beside results, size and limit
SearchTag(stage) ==
    CASE stage = "s1" -> ""
      [] stage = "s2" -> "method: spaceKey parameter search"
      [] OTHER -> "note: Fallback search used due to complex query failure"

\* the mutant of SearchLabel: every reason is pushed with the first label
SearchLabelFirst(stage) == "CQL search: "

\* the label advancedSearch puts before a strategy's reason
SearchLabel(stage) ==
    CASE stage = "s1" -> "CQL search: "
      [] stage = "s2" -> "Space+Title search: "
      [] OTHER -> "Simple search: "

\* errors.join('; ')
RECURSIVE JoinReasons(_)
JoinReasons(errs) ==
    IF errs = <<>> THEN <<>>
    ELSE IF Len(errs) = 1 THEN Head(errs)
    ELSE Head(errs) \o <<"; ">> \o JoinReasons(Tail(errs))

\* the class of a failure, for the history
FailureClass(msg) ==
    CASE msg[1] = BackendDetail("e500") -> "server"
      [] msg[1] = BackendDetail("e400") -> "client"
      [] msg[1] = "Invalid CQL pattern detected: " -> "validation"
      [] OTHER -> "type"

Job(n, m, rest, t, stage, errs, first) ==
    [n |-> n, m |-> m, rest |-> rest, t |-> t,
     stage |-> stage, errs |-> errs, first |-> first]

\* a stage has its result: the reply of the tool call
SearchSucceeded(st, job, data) ==
    LET key == getCacheKey(SearchEndpoint(job.stage, job.m.query), "GET")
        r == Resolved(st, "confluence", job.n, job.m, key, data)
    IN  IF Len(r.out) = Len(st.out) THEN r
        ELSE [r EXCEPT !.out[Len(r.out)].tag = SearchTag(job.stage)]

RECURSIVE SearchTry(_, _), SearchFailed(_, _, _)

\* a stage begins, and runs up to its await of the backend
SearchTry(st, job) ==
    LET in == Note(st, Ev("try", job.n, <<job.stage>>, job.t, TRUE))
        key == getCacheKey(SearchEndpoint(job.stage, job.m.query), "GET")
        look == getFromCache(in.cache, key, job.t)
        gone == DOMAIN in.cache \ DOMAIN look.cache
        seen == Note(in, Ev("lookup", job.n, key, job.t, look.hit))
        swept == IF gone = {} THEN seen
                 ELSE Note(seen, Ev("delete", job.n, key, job.t, TRUE))
        task == [cur |-> job.n, rest |-> job.rest, key |-> key, http |-> "GET",
                 stage |-> job.stage, errs |-> job.errs, first |-> job.first]
    IN  IF job.stage = "s1" /\ job.m.query = "none"
        THEN SearchFailed(in, job,
                 <<"Cannot read properties of undefined (reading 'trim')">>)
        ELSE IF job.stage = "s1" /\ RejectedCQL(job.m.query)
        THEN SearchFailed(in, job, <<"Invalid CQL pattern detected: ", job.m.query>>)
        ELSE IF look.hit THEN SearchSucceeded(seen, job, look.data)
        ELSE [Note(swept, Ev("request", job.n, key, job.t, TRUE))
                 EXCEPT !.cache = look.cache, !.task = task, !.next = "suspend"]

\* a stage has failed with msg: the catch blocks of searchPagesCompact,
\* searchPagesSimple and advancedSearch
SearchFailed(st, job, msg) ==
    LET in == Note(st, Ev("fail", job.n, <<job.stage, FailureClass(msg)>>, job.t, FALSE))
        \* the error strategy 1 ends with: its own, also after "d1" has failed
        own == IF job.stage = "d1" THEN job.first ELSE msg
        after1 == Append(job.errs, <<SearchLabel("s1")>> \o own)
        go(stage, errs) == SearchTry(in, [job EXCEPT !.stage = stage, !.errs = errs,
                                                     !.first = <<>>])
    IN  CASE job.stage = "s1" /\ Includes(msg, "500") ->
                SearchTry(in, [job EXCEPT !.stage = "d1", !.first = msg])
          [] job.stage \in {"s1", "d1"} ->
                IF job.m.query = "none"
                THEN ToolFailed(in, "confluence", job.n, job.m,
                         <<"Cannot read properties of undefined (reading 'toLowerCase')">>)
                ELSE IF SplitsToSpaceAndTitle(job.m.query) THEN go("s2", after1)
                ELSE go("s3", after1)
          [] job.stage = "s2" ->
                go("s3", Append(job.errs, <<SearchLabel("s2")>> \o msg))
          [] OTHER ->
                ToolFailed(in, "confluence", job.n, job.m,
                    <<"All search methods failed: ">>
                    \o JoinReasons(Append(job.errs,
                           <<SearchLabel("s3"), "Simple search also failed: ">> \o msg)))

\* handleToolCall up to the first await that has to wait
CallTool(st, a, n, m, rest, t) ==
    IF m.pkind = "null"
    THEN Fail(st, a, n, m,
              <<"Cannot destructure property 'name' of 'params' as it is null.">>)
    ELSE IF m.name \notin HandledTools(a)
    THEN ToolFailed(st, a, n, m, <<"Unknown tool: ", m.name>>)
    ELSE IF ~(CheckedArgs(a, m.name) \subseteq m.args)
    THEN ToolFailed(st, a, n, m, <<RequiredText(m.name)>>)
    ELSE IF ThrowsBeforeRequest(a, m)
    THEN ToolFailed(st, a, n, m,
              <<"Cannot read properties of undefined (reading 'map')">>)
    ELSE IF a = "confluence" /\ m.name = "search_pages"
    THEN SearchTry(st, Job(n, m, rest, t, "s1", <<>>, <<>>))
    ELSE MakeRequest(st, a, n, m, rest, t)

\* one pass of the `for (const line of lines)` body
HandleLine(st, a, n, line, rest, t) ==
    LET i == Parse(line)
        m == Catalogue[i]
        in == Note(st, Ev("begin", n, <<>>, t, TRUE))
    IN  IF a = "legacy" /\ i = 0 THEN LegacyFailed(in, n, <<"Unexpected token">>)
        ELSE IF a = "legacy" /\ m.value = "null"
        THEN LegacyFailed(in, n,
                 <<"Cannot destructure property 'method' of 'request' as it is null.">>)
        ELSE IF i = 0 \/ m.value = "null" THEN ParseFailed(in, n)
        ELSE IF NotificationTestThrows(a, m) THEN [in EXCEPT !.next = "throw"]
        ELSE IF IsNotification(a, m) THEN in
        ELSE CASE Route(m) = "initialize" ->
                    Respond(in, a, n, m, "initialize", FALSE, <<>>, 0)
               [] Route(m) = "tools/list" ->
                    Respond(in, a, n, m, "tools", FALSE, <<>>, 0)
               [] Route(m) = "tools/call" -> CallTool(in, a, n, m, rest, t)
               [] OTHER -> Fail(in, a, n, m, <<"Unknown method: ", m.method>>)

\* the line loop over the line numbers q of em, until it ends, awaits or throws
RECURSIVE RunLoop(_, _, _, _, _)
RunLoop(st, a, em, q, t) ==
    IF q = <<>> THEN st
    ELSE LET r == HandleLine(st, a, Head(q), em[Head(q)], Tail(q), t) IN
         IF r.next = "continue" THEN RunLoop(r, a, em, Tail(q), t) ELSE r

-----------------------------------------------------------------------------
(* The normalizers: htmlToText of the Jira adapter and cleanHtmlToText of    *)
(* the Confluence adapter.  A document is known by the text the conversion   *)
(* makes of it: `sentences` holds the lengths of the pieces that             *)
(* split(/[.!?]\s+/) cuts that text into (a piece has no blank at its ends,  *)
(* and what is cut out between two pieces is a terminator and one blank),    *)
(* and by `fault`, the pass that throws on it: "preprocess" (the regular     *)
(* expression passes of preprocessHtml, which throw on a value that is no    *)
(* string), "render" (convert of html-to-text) or "none".                    *)

NoDoc == [sentences |-> <<>>, fault |-> "none"]

NoText == [status |-> "none", len |-> 0, marker |-> FALSE, kept |-> 0,
           via |-> ""]

Returned(len, marker, kept, via) ==
    [status |-> "returned", len |-> len, marker |-> marker, kept |-> kept,
     via |-> via]

Thrown == [status |-> "thrown", len |-> 0, marker |-> FALSE, kept |-> 0,
           via |-> ""]

\* if (cleanText.length > 500)
SummaryCap == 500
\* if ((summary + sentence).length > 400) break
InnerCap == 400

RECURSIVE Sum(_)
Sum(ss) == IF ss = <<>> THEN 0 ELSE Head(ss) + Sum(Tail(ss))

\* cleanText.length
TextLength(ss) == IF ss = <<>> THEN 0 ELSE Sum(ss) + 2 * (Len(ss) - 1)

\* the mutant of Accumulate: the loop never breaks
RECURSIVE AccumulateAll(_, _, _)
AccumulateAll(ss, len, kept) ==
    IF ss = <<>> THEN [len |-> len, kept |-> kept]
    ELSE IF Head(ss) > 0
    THEN AccumulateAll(Tail(ss), len + Head(ss) + 2, kept + 1)
    ELSE AccumulateAll(Tail(ss), len, kept + 1)

\* the loop over the sentences: summary.length and the sentences passed
RECURSIVE Accumulate(_, _, _)
Accumulate(ss, len, kept) ==
    IF ss = <<>> THEN [len |-> len, kept |-> kept]
    ELSE IF len + Head(ss) > InnerCap THEN [len |-> len, kept |-> kept]
    ELSE IF Head(ss) > 0
    THEN Accumulate(Tail(ss), len + Head(ss) + 2, kept + 1)
    ELSE Accumulate(Tail(ss), len, kept + 1)

\* htmlToText(html) of the Jira adapter: no try block
htmlToText(d) ==
    IF d.sentences = <<>> THEN Returned(0, FALSE, 0, "empty")
    ELSE IF d.fault = "render" THEN Thrown
    ELSE IF TextLength(d.sentences) > SummaryCap
    THEN LET acc == Accumulate(d.sentences, 0, 0)
             trimmed == IF acc.len > 0 THEN acc.len - 1 ELSE 0
             marker == acc.len < TextLength(d.sentences)
         IN  Returned(trimmed + (IF marker THEN 3 ELSE 0), marker, acc.kept, "summary")
    ELSE Returned(TextLength(d.sentences), FALSE, Len(d.sentences), "whole")

\* cleanHtmlToText(html) of the Confluence adapter: the catch block runs
\* preprocessHtml again before it strips the tags
cleanHtmlToText(d) ==
    IF d.sentences = <<>> THEN Returned(0, FALSE, 0, "empty")
    ELSE IF d.fault = "preprocess" THEN Thrown
    ELSE IF d.fault = "render"
    THEN Returned(TextLength(d.sentences), FALSE, Len(d.sentences), "fallback")
    ELSE Returned(TextLength(d.sentences), FALSE, Len(d.sentences), "whole")

-----------------------------------------------------------------------------
(* The events *)

\* the process has not exited and start() has run
Running == exitCode = -1 /\ listening

\* the mutant of MissingSetting: only the lack of both settings counts
MissingBothSettings(e) == e.baseUrl # "set" /\ e.token # "set"

\* !this.baseUrl || !this.token: undefined and the empty string are falsy
MissingSetting(e) == e.baseUrl # "set" \/ e.token # "set"

\* const server = new ...(); server.start(): the constructor ends the process
\* if a setting is missing, else start() registers the handlers
Startup ==
    /\ exitCode = -1
    /\ ~listening
    /\ IF MissingSetting(env)
       THEN exitCode' = 1 /\ listening' = FALSE
       ELSE exitCode' = exitCode /\ listening' = TRUE
    /\ UNCHANGED <<adapter, now, buffer, tasks, out, cache, remote, received,
                   emitted, log, ticks, doc, text, env>>

Work == [out |-> out, cache |-> cache, log |-> log, task |-> NoTask,
         next |-> "continue"]

\* the state after a macrotask that left st, `left` being the handlers that
\* are still suspended.  An error that leaves the 'data' handler is an
\* unhandled rejection: Node.js 15 and later end the process with status 1,
\* earlier versions print a warning and go on.
Settle(st, left) ==
    /\ out' = st.out
    /\ cache' = st.cache
    /\ log' = st.log
    /\ IF st.next = "throw"
       THEN \/ exitCode' = 1 /\ tasks' = {}
            \/ exitCode' = exitCode /\ tasks' = left
       ELSE /\ exitCode' = exitCode
            /\ tasks' = IF st.next = "suspend" THEN left \cup {st.task} ELSE left

\* the mutant of OnData: one loop for all chunks, the lines of a chunk wait
\* behind a suspended handler
OnDataQueued(chunk) ==
    /\ Running
    /\ LET em == emitted \o (IF adapter = "legacy" THEN LegacyLines(chunk)
                              ELSE FrameLines(buffer, chunk))
           q == [k \in 1..(Len(em) - Len(emitted)) |-> Len(emitted) + k]
       IN  /\ emitted' = em
           /\ IF tasks = {}
              THEN Settle(RunLoop(Work, adapter, em, q, now), tasks)
              ELSE /\ \E task \in tasks :
                        tasks' = (tasks \ {task})
                                 \cup {[task EXCEPT !.rest = @ \o q]}
                   /\ UNCHANGED <<out, cache, log, exitCode>>
    /\ buffer' = IF adapter = "legacy" THEN buffer ELSE FrameBuffer(buffer, chunk)
    /\ received' = received \o chunk
    /\ UNCHANGED <<adapter, now, remote, ticks, doc, text, env, listening>>

\* process.stdin.on('data', async (data) => ...)
OnData(chunk) ==
    /\ Running
    /\ LET em == emitted \o (IF adapter = "legacy" THEN LegacyLines(chunk)
                              ELSE FrameLines(buffer, chunk))
           q == [k \in 1..(Len(em) - Len(emitted)) |-> Len(emitted) + k]
       IN  /\ emitted' = em
           /\ Settle(RunLoop(Work, adapter, em, q, now), tasks)
    /\ buffer' = IF adapter = "legacy" THEN buffer ELSE FrameBuffer(buffer, chunk)
    /\ received' = received \o chunk
    /\ UNCHANGED <<adapter, now, remote, ticks, doc, text, env, listening>>

\* the mutant of StoresResult: the response is stored whatever its status
StoresAnyResponse(a, http, ok) == Cacheable(a, http)

\* makeRequest stores the parsed body: after the test of the status and
\* after JSON.parse, `if (method === "GET") this.setToCache(cacheKey, result)`
StoresResult(a, http, ok) == ok /\ Cacheable(a, http)

\* res.on('end') of makeRequest, and what the awaiting handler does next
BackendComplete(task, outcome) ==
    /\ Running
    /\ task \in tasks
    /\ LET n == task.cur
           m == Catalogue[Parse(emitted[n])]
           ok == outcome = "ok"
           version == IF ok /\ task.http # "GET" THEN remote + 1 ELSE remote
           done == Note(Work, Ev("complete", n, task.key, now, ok))
           kept == IF StoresResult(adapter, task.http, ok)
                   THEN [Note(done, Ev("set", n, task.key, now, TRUE))
                            EXCEPT !.cache = setToCache(@, task.key, version, now)]
                   ELSE done
           job == Job(n, m, task.rest, now, task.stage, task.errs, task.first)
           said == CASE task.stage # "tool" /\ ok -> SearchSucceeded(kept, job, version)
                     [] task.stage # "tool" /\ ~ok ->
                            SearchFailed(kept, job, <<BackendDetail(outcome)>>)
                     [] task.stage = "tool" /\ ok ->
                            Resolved(kept, adapter, n, m, task.key, version)
                     [] OTHER -> ToolFailed(kept, adapter, n, m, <<BackendDetail(outcome)>>)
           then == IF said.next = "continue"
                   THEN RunLoop(said, adapter, emitted, task.rest, now)
                   ELSE said
       IN  /\ remote' = version
           /\ Settle(then, tasks \ {task})
    /\ UNCHANGED <<adapter, now, buffer, received, emitted, ticks, doc, text, env, listening>>

\* time passes
Tick(d) ==
    /\ Running
    /\ ticks < MaxTicks
    /\ now' = now + d
    /\ ticks' = ticks + 1
    /\ UNCHANGED <<adapter, exitCode, buffer, tasks, out, cache, remote,
                   received, emitted, log, doc, text, env, listening>>

\* the mutant of OnEnd: the text left in the buffer is taken as a last line
\* and answered before the process exits
OnEndFlushes ==
    /\ Running
    /\ adapter # "legacy"
    /\ exitCode' = 0
    /\ tasks' = {}
    /\ IF Trim(buffer) = <<>>
       THEN UNCHANGED <<emitted, out>>
       ELSE /\ emitted' = Append(emitted, buffer)
            /\ out' = ParseFailed(Work, Len(emitted) + 1).out
    /\ UNCHANGED <<adapter, now, buffer, cache, remote, received, log, ticks,
                   doc, text, env, listening>>

\* the adapter normalizes the document: simplifyIssue calls htmlToText,
\* optimizeResponse calls cleanHtmlToText
Normalize ==
    /\ text.status = "none"
    /\ text' = IF adapter = "jira" THEN htmlToText(doc) ELSE cleanHtmlToText(doc)
    /\ UNCHANGED <<adapter, exitCode, now, buffer, tasks, out, cache, remote,
                   received, emitted, log, ticks, doc, env, listening>>

\* process.stdin.on('end', () => process.exit(0)); version 1.2.0 registers
\* no such handler
OnEnd ==
    /\ Running
    /\ adapter # "legacy"
    /\ exitCode' = 0
    /\ tasks' = {}
    /\ UNCHANGED <<adapter, now, buffer, out, cache, remote, received, emitted,
                   log, ticks, doc, text, env, listening>>

-----------------------------------------------------------------------------
(* The specifications *)

InitWith(adapters) ==
    /\ adapter \in adapters
    /\ exitCode = -1
    /\ now = 0
    /\ buffer = <<>>
    /\ tasks = {}
    /\ out = <<>>
    /\ cache = [k \in {} |-> 0]
    /\ remote = 1
    /\ received = <<>>
    /\ emitted = <<>>
    /\ log = <<>>
    /\ ticks = 0
    /\ doc = NoDoc
    /\ text = NoText
    /\ env = [baseUrl |-> "set", token |-> "set"]
    /\ listening = TRUE

\* the chunks made of one to k whole lines out of `texts`
RECURSIVE LineChunks(_, _)
LineChunks(texts, k) ==
    IF k <= 0 THEN {}
    ELSE {l \o <<NL>> : l \in texts}
         \cup {l \o <<NL>> \o c : l \in texts, c \in LineChunks(texts, k - 1)}

\* the chunks of one to k characters out of `chars`
CharChunks(chars, k) == UNION {[1..j -> chars] : j \in 1..k}

\* Spec: both adapters, whole lines of every kind of message
DispatchTexts == {<<Js(i)>> : i \in (1..13) \cup (18..24) \cup {32}} \cup {<<BAD>>}

Init == InitWith({"jira", "confluence"})

Receive ==
    \E chunk \in LineChunks(DispatchTexts, MaxLines - Len(emitted)) : OnData(chunk)

Complete == \E task \in tasks, outcome \in Outcomes : BackendComplete(task, outcome)

Next == Receive \/ Complete \/ OnEnd

Spec == Init /\ [][Next]_vars

\* SpecFramer: the input cut at every place, one message in two halves
FramerChars == {NL, SP, Hd(5), Tl(5)}

ReceiveChars ==
    \E chunk \in CharChunks(FramerChars, MaxStream - Len(received)) : OnData(chunk)

NextFramer == ReceiveChars \/ Complete \/ OnEnd

SpecFramer == Init /\ [][NextFramer]_vars

\* SpecCache: the Confluence adapter, reads of one page, the clock
InitCache == InitWith({"confluence"})

ReceiveReads ==
    \E chunk \in LineChunks({<<Js(5)>>}, MaxReads - Len(emitted)) : OnData(chunk)

Answer == \E task \in tasks, outcome \in {"ok", "e404"} : BackendComplete(task, outcome)

Advance == \E d \in {1, cacheTimeout - 1} : Tick(d)

NextCache == ReceiveReads \/ Answer \/ Advance

SpecCache == InitCache /\ [][NextCache]_vars

\* SpecMutate: the Confluence adapter, reads of one page and the five
\* mutating operations; a read may fail, a mutation is carried out
MutateTexts == {<<Js(i)>> : i \in {5, 7, 14, 15, 16, 17}}

ReceiveCalls ==
    \E chunk \in LineChunks(MutateTexts, MaxCalls - Len(emitted)) : OnData(chunk)

AnswerCalls ==
    \E task \in tasks, outcome \in {"ok", "e404"} :
        /\ outcome = "ok" \/ task.http = "GET"
        /\ BackendComplete(task, outcome)

NextMutate == ReceiveCalls \/ AnswerCalls

SpecMutate == InitCache /\ [][NextMutate]_vars

\* SpecOrder: both adapters, a request without backend call and one with,
\* in chunks of one line or more, so that a chunk arrives while the handler
\* of an earlier one is suspended
OrderTexts == {<<Js(i)>> : i \in {2, 3, 5}}

ReceiveOrder ==
    \E chunk \in LineChunks(OrderTexts, MaxOrder - Len(emitted)) : OnData(chunk)

NextOrder == ReceiveOrder \/ Answer

SpecOrder == Init /\ [][NextOrder]_vars

\* SpecSearch: the Confluence adapter, searches with every kind of query;
\* the backend answers, or fails with a server error, or with a client error
\* (a failure of the network, `Request failed: ...`, takes the path of the
\* client error: its text has no 500 either)
SearchTexts == {<<Js(i)>> : i \in 25..31}

SearchOutcomes == {"ok", "e500", "e400"}

ReceiveSearches ==
    \E chunk \in LineChunks(SearchTexts, MaxSearches - Len(emitted)) : OnData(chunk)

AnswerSearches ==
    \E task \in tasks, outcome \in SearchOutcomes : BackendComplete(task, outcome)

NextSearch == ReceiveSearches \/ AnswerSearches

SpecSearch == InitCache /\ [][NextSearch]_vars

\* SpecStartup: both adapters from the start of the process, with every
\* combination of settings
InitStartup ==
    /\ adapter \in {"jira", "confluence"}
    /\ exitCode = -1
    /\ now = 0
    /\ buffer = <<>>
    /\ tasks = {}
    /\ out = <<>>
    /\ cache = [k \in {} |-> 0]
    /\ remote = 1
    /\ received = <<>>
    /\ emitted = <<>>
    /\ log = <<>>
    /\ ticks = 0
    /\ doc = NoDoc
    /\ text = NoText
    /\ env \in [{"baseUrl", "token"} -> {"absent", "empty", "set"}]
    /\ listening = FALSE

NextStartup == Startup \/ Receive \/ Complete \/ OnEnd

SpecStartup == InitStartup /\ [][NextStartup]_vars

\* SpecChunk: the three adapters; chunks of several lines of which one fails:
\* no JSON, an unknown method, a method that is a number, a tool call
\* without its argument; the others are a tools/list and a tool call
InitChunk == InitWith({"jira", "confluence", "legacy"})

ChunkTexts == {<<Js(i)>> : i \in {2, 3, 4, 12, 13}} \cup {<<BAD>>}

ReceiveChunk ==
    \E chunk \in LineChunks(ChunkTexts, MaxChunk - Len(emitted)) : OnData(chunk)

NextChunk == ReceiveChunk \/ Complete

SpecChunk == InitChunk /\ [][NextChunk]_vars

\* SpecFetch: the Confluence adapter, reads of one page, the clock; the
\* backend answers, or fails with a status, a body that is no JSON, or an
\* error of the connection
FetchOutcomes == {"ok", "e404", "badjson", "net"}

AnswerFetch ==
    \E task \in tasks, outcome \in FetchOutcomes : BackendComplete(task, outcome)

NextFetch == ReceiveReads \/ AnswerFetch \/ Advance

SpecFetch == InitCache /\ [][NextFetch]_vars

\* SpecShared: the Confluence adapter, reads of the list of spaces (a handler
\* that maps the results in place) and of one page (a handler that does not)
SharedTexts == {<<Js(i)>> : i \in {5, 33}}

ReceiveShared ==
    \E chunk \in LineChunks(SharedTexts, MaxShared - Len(emitted)) : OnData(chunk)

NextShared == ReceiveShared \/ Answer

SpecShared == InitCache /\ [][NextShared]_vars

\* SpecText: both adapters, a document of up to MaxSentences sentences
SentenceLengths == {0, 1, 100, 399, 400, 401, 498, 501}

Documents ==
    {[sentences |-> ss, fault |-> f] :
        ss \in UNION {[1..k -> SentenceLengths] : k \in 0..MaxSentences},
        f \in {"none", "preprocess", "render"}}

InitText ==
    /\ adapter \in {"jira", "confluence"}
    /\ exitCode = -1
    /\ now = 0
    /\ buffer = <<>>
    /\ tasks = {}
    /\ out = <<>>
    /\ cache = [k \in {} |-> 0]
    /\ remote = 1
    /\ received = <<>>
    /\ emitted = <<>>
    /\ log = <<>>
    /\ ticks = 0
    /\ doc \in Documents
    /\ text = NoText
    /\ env = [baseUrl |-> "set", token |-> "set"]
    /\ listening = TRUE

NextText == Normalize

SpecText == InitText /\ [][NextText]_vars

-----------------------------------------------------------------------------
(* What the history says about a line *)

LineNos == 1..Len(emitted)

\* the message line n decodes to; only used where Parse is not 0
MsgOf(n) == Catalogue[Parse(emitted[n])]

Decodes(n) == Parse(emitted[n]) # 0

\* the loop body has started on line n
Begun(n) == \E k \in 1..Len(log) : log[k].ev = "begin" /\ log[k].src = n

\* a suspended handler is on line n or has it ahead
Pending(n) ==
    \E task \in tasks :
        task.cur = n \/ \E k \in 1..Len(task.rest) : task.rest[k] = n

\* the loop body has run on line n to its end, or an error has ended it
Over(n) == Begun(n) /\ ~Pending(n)

Replies(n) == {k \in 1..Len(out) : out[k].src = n}

Events(n, kinds) == {k \in 1..Len(log) : log[k].src = n /\ log[k].ev \in kinds}

Requests(n) == Events(n, {"request"})

CacheOps(n) == Events(n, {"set", "delete"})

IsToolCall(n) == Decodes(n) /\ Route(MsgOf(n)) = "tools/call"

-----------------------------------------------------------------------------
(* C1 *)

\* C1 as claimed: every line that decodes to a message with an id and a method
\* that is no notification (not under notifications/, not the handshake
\* acknowledgment) has exactly one reply once its handling is over, unless the
\* input ended first; and never two.
C1_ExactlyOneReply ==
    \A n \in LineNos :
        /\ Cardinality(Replies(n)) <= 1
        /\ ( /\ Decodes(n)
             /\ MsgOf(n).id \notin {"absent", "null"}
             /\ ~StartsWithNotifications(MsgOf(n).method)
             /\ MsgOf(n).method # "initialized"
             /\ Over(n)
             /\ exitCode # 0 )
           => Cardinality(Replies(n)) = 1

-----------------------------------------------------------------------------
(* C3 *)

\* the text after the last newline of s
AfterLastNewline(s) ==
    LET nls == {i \in 1..Len(s) : s[i] = NL}
        last == IF nls = {} THEN 0 ELSE CHOOSE i \in nls : \A j \in nls : j <= i
    IN  SubSeq(s, last + 1, Len(s))

\* C3: a line the loop has started on that is no JSON has exactly one reply,
\* an error with code -32700 and id null; the line causes no backend request
\* and no change of the cache, and the buffer is what the framer left, the
\* text after the last newline.
C3_ParseError ==
    /\ buffer = AfterLastNewline(received)
    /\ \A n \in LineNos :
        (Begun(n) /\ ~Decodes(n)) =>
            /\ Cardinality(Replies(n)) = 1
            /\ \A k \in Replies(n) :
                /\ out[k].kind = "error"
                /\ out[k].code = -32700
                /\ out[k].id = "null"
            /\ Requests(n) = {}
            /\ CacheOps(n) = {}
            /\ Events(n, {"lookup", "complete"}) = {}
            /\ ~Pending(n)

\* C3 witness: a malformed line was answered while the cache held an entry
C3_Witness ==
    /\ \E n \in LineNos : Begun(n) /\ ~Decodes(n) /\ Replies(n) # {}
    /\ DOMAIN cache # {}

-----------------------------------------------------------------------------
(* C4 *)

\* C4 as claimed: a tools/call that names a listed tool and leaves out an
\* argument its schema requires causes no backend request and, once handled,
\* has an error reply with code -32602.
C4_MissingArgument ==
    \A n \in LineNos :
        ( /\ IsToolCall(n)
          /\ MsgOf(n).pkind = "object"
          /\ MsgOf(n).name \in ListedTools(adapter)
          /\ ~(RequiredArgs(adapter, MsgOf(n).name) \subseteq MsgOf(n).args) )
        => /\ Requests(n) = {}
           /\ Begun(n) =>
                \E k \in Replies(n) : out[k].kind = "error" /\ out[k].code = -32602

-----------------------------------------------------------------------------
(* C5 *)

\* C5 as claimed: a tools/call whose tool name has no handler has, once
\* handled, an error reply with code -32601, and causes no backend request and
\* no change of the cache.
C5_UnknownTool ==
    \A n \in LineNos :
        ( /\ IsToolCall(n)
          /\ MsgOf(n).pkind = "object"
          /\ MsgOf(n).name \notin HandledTools(adapter) )
        => /\ Requests(n) = {}
           /\ CacheOps(n) = {}
           /\ Begun(n) =>
                \E k \in Replies(n) : out[k].kind = "error" /\ out[k].code = -32601

-----------------------------------------------------------------------------
(* C6 *)

Failed(n) == \E k \in Events(n, {"complete"}) : ~log[k].ok

\* C6 as claimed: a line whose backend call failed has an error reply with
\* code -32000 that carries the failure text, and a line for which a backend
\* request was made never has a reply with code -32602 or -32601.
C6_ToolExecutionError ==
    \A n \in LineNos :
        /\ Requests(n) # {} =>
              \A k \in Replies(n) : out[k].code \notin {-32602, -32601}
        /\ (Failed(n) /\ exitCode # 0) =>
              \E k \in Replies(n) :
                  /\ out[k].kind = "error"
                  /\ out[k].code = -32000
                  /\ \E j \in 1..Len(out[k].data) :
                        out[k].data[j] \in {BackendDetail(o) : o \in Outcomes}

-----------------------------------------------------------------------------
(* C10 *)

\* C10 as claimed: a line that decodes to a message without id, or with a
\* method under notifications/ or equal to initialized, never has a reply.
C10_NotificationSilent ==
    \A n \in LineNos :
        ( /\ Decodes(n)
          /\ \/ MsgOf(n).id = "absent"
             \/ /\ MsgOf(n).mkind = "string"
                /\ \/ StartsWithNotifications(MsgOf(n).method)
                   \/ MsgOf(n).method = "initialized" )
        => Replies(n) = {}

-----------------------------------------------------------------------------
(* C2 *)

\* the newline-terminated lines of s, by the places of its newlines
SourceLines(s) ==
    LET nls == {i \in 1..Len(s) : s[i] = NL}
        nth(k) == CHOOSE i \in nls : Cardinality({j \in nls : j <= i}) = k
        from(k) == IF k = 1 THEN 1 ELSE nth(k - 1) + 1
    IN  [k \in 1..Cardinality(nls) |-> SubSeq(s, from(k), nth(k) - 1)]

HasText(l) == \E i \in 1..Len(l) : l[i] # SP

\* C2: however the input is cut into chunks, the lines given to the loop are
\* the non-blank newline-terminated lines of all the text received, unchanged
\* and in order; the buffer is the text after the last newline received; the
\* loop starts only on such lines, once each, and every reply is to one.
C2_Reassembly ==
    /\ emitted = SelectSeq(SourceLines(received), HasText)
    /\ buffer = AfterLastNewline(received)
    /\ \A k \in 1..Len(log) : log[k].src \in LineNos
    /\ \A n \in LineNos : Cardinality(Events(n, {"begin"})) <= 1
    /\ \A k \in 1..Len(out) : out[k].src \in LineNos /\ HasText(emitted[out[k].src])
    /\ Len(out) <= Len(emitted)

\* C2 witness: a message that came in two chunks was decoded and answered, a
\* blank line was passed over, and the first half of the next message waits in
\* the buffer
C2_Witness ==
    /\ Len(emitted) = 1
    /\ emitted[1] = <<Hd(5), Tl(5)>>
    /\ Replies(1) # {}
    /\ \E k \in 1..Len(SourceLines(received)) : ~HasText(SourceLines(received)[k])
    /\ buffer = <<Hd(5)>>

-----------------------------------------------------------------------------
(* C7 *)

IsRead(n) == IsToolCall(n) /\ Events(n, {"lookup"}) # {}

\* the stores of a key before place j of the log
SetsBefore(j) ==
    {i \in 1..(j - 1) : log[i].ev = "set" /\ log[i].key = log[j].key}

\* C7 as claimed: of two invocations of the same cached read of which the
\* second begins less than one TTL after the first, only one calls the backend.
C7_OnceWithinTTL ==
    \A i, j \in 1..Len(log) :
        ( /\ i < j
          /\ log[i].ev = "lookup" /\ log[j].ev = "lookup"
          /\ log[i].key = log[j].key
          /\ log[j].t - log[i].t < cacheTimeout )
        => Cardinality(Requests(log[i].src) \cup Requests(log[j].src)) = 1

\* C7 as amended: an invocation of a cached read that begins after an earlier
\* one of the same read has completed with success, less than one TTL after
\* that completion, calls the backend not at all; every other invocation (none
\* has completed with success yet, or the TTL has elapsed since the last one
\* that did) calls it once.
C7_OnceAfterCompletion ==
    \A j \in 1..Len(log) :
        log[j].ev = "lookup" =>
            IF \E i \in SetsBefore(j) : log[j].t - log[i].t < cacheTimeout
            THEN log[j].ok /\ Requests(log[j].src) = {}
            ELSE ~log[j].ok /\ Cardinality(Requests(log[j].src)) = 1

\* C7 witness: a read completed, and a second one that began later, within
\* the TTL, was answered without a backend request
C7_Witness ==
    \E j \in 1..Len(log) :
        /\ log[j].ev = "lookup"
        /\ \E i \in SetsBefore(j) : 0 < log[j].t - log[i].t
        /\ \E i \in SetsBefore(j) : log[j].t - log[i].t < cacheTimeout
        /\ Requests(log[j].src) = {}
        /\ Replies(log[j].src) # {}

-----------------------------------------------------------------------------
(* C9 *)

CacheKeys == {getCacheKey(Endpoint("confluence", Catalogue[i]), "GET") : i \in {5, 6}}

\* the entry a key has at place j of the log: the last store before j, unless
\* a delete came after it; 0 for none
EntryAt(j) ==
    LET ops == {i \in 1..(j - 1) :
                   log[i].ev \in {"set", "delete"} /\ log[i].key = log[j].key}
        last == CHOOSE i \in ops : \A k \in ops : k <= i
    IN  IF ops = {} THEN 0 ELSE IF log[last].ev = "set" THEN last ELSE 0

\* C9: a lookup returns a value only if the key has an entry and
\* now - timestamp < TTL, and then that entry's data; otherwise it returns
\* nothing and the key has no entry afterwards.  Said of every lookup made,
\* and of a lookup of every key in every state reached.
C9_Lookup ==
    /\ \A j \in 1..Len(log) :
          log[j].ev = "lookup" =>
              /\ log[j].ok <=> ( /\ EntryAt(j) # 0
                                 /\ log[j].t - log[EntryAt(j)].t < cacheTimeout )
              /\ (~log[j].ok /\ EntryAt(j) # 0) =>
                    /\ j < Len(log)
                    /\ log[j + 1].ev = "delete"
                    /\ log[j + 1].key = log[j].key
    /\ \A key \in CacheKeys \cup DOMAIN cache :
          LET r == getFromCache(cache, key, now) IN
          IF key \in DOMAIN cache /\ now - cache[key].timestamp < cacheTimeout
          THEN r.hit /\ r.data = cache[key].data /\ r.cache = cache
          ELSE /\ ~r.hit
               /\ key \notin DOMAIN r.cache
               /\ \A k \in DOMAIN cache \ {key} :
                     k \in DOMAIN r.cache /\ r.cache[k] = cache[k]

\* C9 witness: a lookup found an entry whose age was the TTL to the
\* millisecond, returned nothing and deleted it
C9_Witness ==
    \E j \in 1..Len(log) :
        /\ log[j].ev = "lookup"
        /\ ~log[j].ok
        /\ EntryAt(j) # 0
        /\ log[j].t - log[EntryAt(j)].t = cacheTimeout
        /\ log[j + 1].ev = "delete"

-----------------------------------------------------------------------------
(* C8 *)

IsMutation(n) ==
    IsToolCall(n) /\ Http(adapter, MsgOf(n).name) \in {"POST", "PUT", "DELETE"}

\* C8: a mutating operation makes no cache lookup and no store or delete;
\* every entry of the cache was stored by a GET and is as that GET stored it;
\* a read answered from the cache returns the entry as stored, whatever
\* mutation the backend has carried out since.
C8_MutationsBypassCache ==
    /\ \A n \in LineNos :
          IsMutation(n) => Events(n, {"lookup", "set", "delete"}) = {}
    /\ \A key \in DOMAIN cache :
          \E i \in 1..Len(log) :
              /\ log[i].ev = "set" /\ log[i].key = key
              /\ ~IsMutation(log[i].src)
              /\ log[i].t = cache[key].timestamp
              /\ \A k \in (i + 1)..Len(log) :
                    ~(log[k].ev \in {"set", "delete"} /\ log[k].key = key)
              /\ \A k \in Replies(log[i].src) : out[k].value = cache[key].data
    /\ \A j \in 1..Len(log) :
          (log[j].ev = "lookup" /\ log[j].ok) =>
              /\ EntryAt(j) # 0
              /\ \A k \in Replies(log[j].src), k0 \in Replies(log[EntryAt(j)].src) :
                    out[k].value = out[k0].value

\* C8 witness: a page was read and cached, then updated on the backend, then
\* read again from the cache: the second read returned the version from before
\* the update
C8_Witness ==
    \E j \in 1..Len(log) :
        /\ log[j].ev = "lookup" /\ log[j].ok
        /\ \E i \in (EntryAt(j) + 1)..(j - 1) :
              log[i].ev = "complete" /\ log[i].ok /\ IsMutation(log[i].src)
        /\ \E k \in Replies(log[j].src) : out[k].value < remote

-----------------------------------------------------------------------------
(* C11 *)

\* C11 as claimed: whatever JSON value a line holds and whatever the types of
\* its method and params, no line ends the process with an error, and no line
\* the framer has handed over is left unhandled: while the process runs, each
\* has been started on or waits behind a suspended handler of its chunk.
C11_NoLineEscapes ==
    /\ exitCode # 1
    /\ Running => \A n \in LineNos : Begun(n) \/ Pending(n)

-----------------------------------------------------------------------------
(* C12 *)

\* the line holds an object with an id member (null counts as none)
CarriesId(n) ==
    Decodes(n) /\ MsgOf(n).value = "object" /\ MsgOf(n).id \notin {"absent", "null"}

\* C12 as claimed: every reply to a line that carried an id has exactly that
\* id, 0 and the empty string included; a reply has id null only if the line
\* carried none.
C12_EchoesId ==
    \A k \in 1..Len(out) :
        /\ CarriesId(out[k].src) => out[k].id = MsgOf(out[k].src).id
        /\ out[k].id = "null" => ~CarriesId(out[k].src)

-----------------------------------------------------------------------------
(* C13 *)

\* C13 as claimed: the loop starts on the lines in the order of the stream:
\* of two lines, the one that came later never has its handling started first.
C13_StartInOrder ==
    \A i, j \in 1..Len(log) :
        (i < j /\ log[i].ev = "begin" /\ log[j].ev = "begin")
            => log[i].src < log[j].src

-----------------------------------------------------------------------------
(* C14 *)

\* C14 as claimed: invocations decoded from one chunk are not serialized: an
\* invocation that awaits the backend holds back no later tools/call of its
\* chunk, so that two of them that both need the backend are in flight
\* together.
C14_NotSerialized ==
    \A task \in tasks :
        \A k \in 1..Len(task.rest) : ~IsToolCall(task.rest[k])

-----------------------------------------------------------------------------
(* C20 *)

\* C20: the step in which the process exits with status 0, the end of the
\* input, writes no reply, hands no line to the loop and starts no handling,
\* and leaves no handler behind; after the exit nothing is written.  So the
\* text in the buffer is never dispatched: the lines handed over are the
\* newline-terminated ones, and every reply is to one of them.
C20_EndOfInput ==
    /\ [](exitCode = 0 =>
            /\ tasks = {}
            /\ emitted = SelectSeq(SourceLines(received), HasText)
            /\ \A k \in 1..Len(out) : out[k].src \in LineNos)
    /\ [][exitCode' = 0 =>
            /\ out' = out /\ emitted' = emitted /\ log' = log
            /\ buffer' = buffer]_vars
    /\ [][(exitCode = -1 /\ exitCode' # -1) => exitCode' = 0]_vars

\* C20 witness: the input ended while a whole message without its newline sat
\* in the buffer and an invocation awaited the backend: neither has a reply
C20_Witness ==
    /\ exitCode = 0
    /\ Parse(buffer) # 0
    /\ \E n \in LineNos : Requests(n) # {} /\ Replies(n) = {}
    /\ Len(out) = 0

-----------------------------------------------------------------------------
(* C15, C16, C17 *)

IsSearch(n) == IsToolCall(n) /\ MsgOf(n).name = "search_pages"

\* the stages line n has begun, in order
Tried(n) ==
    LET at == SelectSeq([k \in 1..Len(log) |-> k],
                        LAMBDA k : log[k].ev = "try" /\ log[k].src = n)
    IN  [k \in 1..Len(at) |-> log[at[k]].key[1]]

\* C15 as claimed: once a strategy of a search has failed with anything but a
\* server error (the query rejected by the validation, a client error), the
\* invocation tries no further strategy and makes no
\* further backend request.
C15_AdvanceOnlyOnServerError ==
    \A i, j \in 1..Len(log) :
        ( /\ i < j
          /\ log[i].ev = "fail"
          /\ log[i].key[2] # "server"
          /\ log[j].src = log[i].src )
        => log[j].ev \notin {"try", "request"}

\* C16: a search result produced by the split space and title search names
\* that search, one produced by the simple text search says that the
\* fallback was used, also when the simple search ran inside the first
\* strategy, and one produced by the query as given has no such tag.
C16_FallbackTagged ==
    \A k \in 1..Len(out) :
        (IsSearch(out[k].src) /\ ~out[k].isError) =>
            LET tried == Tried(out[k].src)
                by == tried[Len(tried)]
            IN  /\ tried # <<>>
                /\ by = "s1" => out[k].tag = ""
                /\ by = "s2" => out[k].tag = "method: spaceKey parameter search"
                /\ by \in {"d1", "s3"} =>
                      out[k].tag = "note: Fallback search used due to complex query failure"

\* C16 witness: the first strategy failed with a server error, the simple
\* search tried inside it succeeded, and the reply has the fallback note
C16_Witness ==
    \E k \in 1..Len(out) :
        /\ IsSearch(out[k].src) /\ ~out[k].isError
        /\ Tried(out[k].src) = <<"s1", "d1">>
        /\ out[k].tag # ""

SearchLabels == {"CQL search: ", "Space+Title search: ", "Simple search: "}

LabelOf(stage) ==
    CASE stage = "s1" -> "CQL search: "
      [] stage = "s2" -> "Space+Title search: "
      [] stage = "s3" -> "Simple search: "

\* the last strategy of line n, the simple search, has failed, and with it
\* every strategy the invocation has tried
AllFailed(n) ==
    \E k \in Events(n, {"fail"}) : log[k].key[1] = "s3"

\* C17: a search of which every strategy has failed has one reply, the
\* failure `All search methods failed`, which lists one reason for each
\* strategy tried, under the strategy's label, in the order of the strategies
\* and separated by `; `: three when the split search was tried, else two.
C17_AggregateFailure ==
    \A n \in LineNos :
        (IsSearch(n) /\ AllFailed(n)) =>
            LET strategies == SelectSeq(Tried(n), LAMBDA g : g # "d1")
                labels == [g \in 1..Len(strategies) |-> LabelOf(strategies[g])]
            IN  /\ Cardinality(Replies(n)) = 1
                /\ Len(strategies) \in {2, 3}
                /\ \A k \in Replies(n) :
                      /\ out[k].isError
                      /\ out[k].data[2] = "All search methods failed: "
                      /\ SelectSeq(out[k].data, LAMBDA x : x \in SearchLabels) = labels
                      /\ Len(SelectSeq(out[k].data, LAMBDA x : x = "; "))
                            = Len(strategies) - 1
                      /\ \A i \in 1..Len(out[k].data) :
                            out[k].data[i] \in SearchLabels =>
                                /\ i < Len(out[k].data)
                                /\ out[k].data[i + 1] \notin SearchLabels \cup {"; "}

\* C17 witness: all three strategies were tried and failed, the first with a
\* server error and the simple search inside it as well, and the reply lists
\* three reasons
C17_Witness ==
    \E n \in LineNos :
        /\ IsSearch(n) /\ AllFailed(n)
        /\ Tried(n) = <<"s1", "d1", "s2", "s3">>
        /\ \E k \in Replies(n) :
              Len(SelectSeq(out[k].data, LAMBDA x : x \in SearchLabels)) = 3

-----------------------------------------------------------------------------
(* C18 *)

\* the length of the first k sentences as the summary holds them, each
\* followed by a full stop and a blank, empty ones left out
SummaryLength(ss, k) ==
    Sum([i \in 1..k |-> IF ss[i] > 0 THEN ss[i] + 2 ELSE 0])

\* C18 as claimed: in both adapters the text returned is at most the cap long;
\* a text within the cap is returned whole and without marker, a longer one as
\* its first sentences, as many as stay within the inner cap, with the marker.
C18_Capped ==
    text.status = "returned" =>
        /\ text.len <= SummaryCap
        /\ TextLength(doc.sentences) <= SummaryCap =>
              text.len = TextLength(doc.sentences) /\ ~text.marker
        /\ TextLength(doc.sentences) > SummaryCap => text.marker

\* C18 as amended: the text the Jira adapter returns is at most the cap long:
\* a text within the cap is returned whole and without marker; of a longer one
\* the first sentences are returned, each one taken while the summary so far
\* and the sentence are together within the inner cap, followed by the marker.
\* The Confluence adapter returns the text whole whatever its length.
C18_CappedInJira ==
    text.status = "returned" =>
        IF adapter = "jira"
        THEN /\ text.len <= SummaryCap
             /\ TextLength(doc.sentences) <= SummaryCap =>
                   /\ text.len = TextLength(doc.sentences)
                   /\ ~text.marker
                   /\ text.kept = Len(doc.sentences)
             /\ TextLength(doc.sentences) > SummaryCap =>
                   /\ text.marker
                   /\ text.kept < Len(doc.sentences)
                   /\ \A k \in 1..text.kept :
                         SummaryLength(doc.sentences, k - 1) + doc.sentences[k]
                             <= InnerCap
                   /\ SummaryLength(doc.sentences, text.kept)
                         + doc.sentences[text.kept + 1] > InnerCap
                   /\ text.len + 1 >= SummaryLength(doc.sentences, text.kept) + 3
                   /\ text.len <= SummaryLength(doc.sentences, text.kept) + 3
        ELSE text.len = TextLength(doc.sentences) /\ ~text.marker

\* C18 witness: the Jira adapter has cut a text of three sentences, longer
\* than the cap, after its second sentence
C18_Witness ==
    /\ adapter = "jira"
    /\ text.status = "returned"
    /\ Len(doc.sentences) = 3
    /\ TextLength(doc.sentences) > SummaryCap
    /\ text.kept = 2
    /\ text.marker

-----------------------------------------------------------------------------
(* C19 *)

\* C19 as claimed: whichever pass fails on the document, the normalizer
\* throws nothing to its caller and returns a text.
C19_NeverThrows == text.status # "thrown"

-----------------------------------------------------------------------------
(* C21 *)

\* the line holds a request whose method is no notification and none of
\* initialize, tools/list and tools/call
IsUnknownMethod(n) ==
    /\ Decodes(n)
    /\ MsgOf(n).value = "object"
    /\ MsgOf(n).mkind # "absent"
    /\ Route(MsgOf(n)) = "unknown"
    /\ ~StartsWithNotifications(MsgOf(n).method)
    /\ MsgOf(n).method # "initialized"

-----------------------------------------------------------------------------
(* C22 *)

-----------------------------------------------------------------------------
(* C23 *)

\* C23: while a required setting is missing the handlers of stdin are not
\* registered, no input is read, no line is dispatched, logged or answered,
\* and the process is either not constructed yet or has exited with status 1.
C23_ExitsBeforeListening ==
    (env.baseUrl = "absent" \/ env.token = "absent") =>
        /\ ~listening
        /\ exitCode \in {-1, 1}
        /\ received = <<>>
        /\ emitted = <<>>
        /\ log = <<>>
        /\ out = <<>>
        /\ tasks = {}

\* the token is missing and the process has exited
C23_Witness ==
    /\ env.baseUrl = "set"
    /\ env.token = "absent"
    /\ exitCode = 1
    /\ ~listening

-----------------------------------------------------------------------------
(* C24 *)

\* C24 as claimed: a failure on one line does not end the process and does
\* not keep the loop from the later lines of the chunk: once no handler is
\* suspended, the loop has started on every line it was given, no line has
\* two replies, and a line that is no JSON has its error reply.
C24_LaterLinesHandled ==
    /\ exitCode = -1
    /\ tasks = {} =>
          \A n \in LineNos :
              /\ Begun(n)
              /\ Cardinality(Replies(n)) <= 1
              /\ ~Decodes(n) => Replies(n) # {}

-----------------------------------------------------------------------------
(* C25 *)

\* C25: invocations of successive chunks are not serialized: the 'data' event
\* that hands lines to the loop starts on the first of them in the same
\* step, whatever handlers of earlier chunks are suspended, and a message
\* that came later and called the backend never has to wait for the reply
\* to an earlier one: no suspended handler has a line of a later chunk ahead.
C25_ChunksOverlap ==
    [][emitted' # emitted =>
          /\ \E k \in 1..Len(log') :
                log'[k].ev = "begin" /\ log'[k].src = Len(emitted) + 1
          /\ \A task \in tasks :
                \E later \in tasks' :
                    later.cur = task.cur /\ later.rest = task.rest]_vars

\* C25 witness: the tools/call of the first chunk and the tools/call of the
\* second were both awaiting the backend, and the second has its reply
\* while the first is still awaiting
C25_Witness ==
    /\ Len(emitted) >= 2
    /\ \E task \in tasks : task.cur = 1
    /\ Requests(1) # {} /\ Replies(1) = {}
    /\ Requests(2) # {} /\ Replies(2) # {}
    /\ \A k \in Replies(2) : out[k].kind = "result"

-----------------------------------------------------------------------------
(* C26 *)

\* the place of a stage's query in the order the claim gives: the structured
\* query, the split into space and title, the degraded text query
StrategyRank(stage) ==
    CASE stage = "s1" -> 1
      [] stage = "s2" -> 2
      [] OTHER -> 3

\* the events of line n, in order
EventsOf(n) == SelectSeq(log, LAMBDA e : e.src = n)

\* C26 as claimed: a search has one outcome, never two, and has it once it is
\* over; its strategies begin in the order structured, split, degraded, none
\* of them twice; and after a strategy has its result (from the backend or
\* from the cache) the search begins no strategy and makes no request.
C26_OneOutcomeFixedOrder ==
    \A n \in LineNos :
        IsSearch(n) =>
            /\ Cardinality(Replies(n)) <= 1
            /\ Over(n) => Replies(n) # {}
            /\ \A i, j \in 1..Len(Tried(n)) :
                  i < j => StrategyRank(Tried(n)[i]) < StrategyRank(Tried(n)[j])
            /\ \A i, j \in 1..Len(EventsOf(n)) :
                  ( /\ i < j
                    /\ EventsOf(n)[i].ev \in {"complete", "lookup"}
                    /\ EventsOf(n)[i].ok )
                      => EventsOf(n)[j].ev \notin {"try", "request"}

-----------------------------------------------------------------------------
(* C27 *)

\* C27 as claimed: a tools/call resolves to a handler exactly if tools/list
\* returns its name: a call of a name that is not listed makes no backend
\* request and is answered as an unknown tool, and a call of a listed name
\* is not.
C27_ListedIsHandled ==
    \A n \in LineNos :
        (IsToolCall(n) /\ MsgOf(n).pkind = "object") =>
            LET unknown(k) == \E i \in 1..Len(out[k].data) :
                                  out[k].data[i] = "Unknown tool: "
            IN  IF MsgOf(n).name \in ListedTools(adapter)
                THEN \A k \in Replies(n) : ~unknown(k)
                ELSE /\ Requests(n) = {}
                     /\ \A k \in Replies(n) : unknown(k)

-----------------------------------------------------------------------------
(* C28 *)

\* C28: every store follows at once on the successful completion of a GET
\* request of the same line for the same key, and every entry of the cache
\* comes from such a store; so a read that fails stores nothing, and a read
\* is served from the cache only if a store of its key lies less than one
\* TTL back: after reads that all failed, the next identical read misses
\* the cache and calls the backend.
C28_StoredOnlyOnSuccess ==
    /\ \A j \in 1..Len(log) :
          /\ log[j].ev = "set" =>
                /\ j > 1
                /\ log[j - 1].ev = "complete" /\ log[j - 1].ok
                /\ log[j - 1].src = log[j].src /\ log[j - 1].key = log[j].key
                /\ log[j].key[2] = "GET"
          /\ (log[j].ev = "complete" /\ ~log[j].ok) =>
                (j < Len(log) => log[j + 1].ev # "set")
          /\ (log[j].ev = "lookup" /\ log[j].ok) =>
                \E i \in SetsBefore(j) : log[j].t - log[i].t < cacheTimeout
          /\ (log[j].ev = "lookup" /\ ~log[j].ok) =>
                \E k \in (j + 1)..Len(log) :
                    /\ log[k].ev = "request"
                    /\ log[k].src = log[j].src /\ log[k].key = log[j].key
    /\ \A key \in DOMAIN cache :
          \E i \in 1..Len(log) :
              /\ log[i].ev = "set" /\ log[i].key = key
              /\ log[i].t = cache[key].timestamp

\* C28 witness: a read failed, the cache has no entry, and the identical
\* read that came next has called the backend again
C28_Witness ==
    /\ cache = [k \in {} |-> 0]
    /\ \E i, j, k \in 1..Len(log) :
          /\ i < j /\ j < k
          /\ log[i].ev = "complete" /\ ~log[i].ok
          /\ log[j].ev = "lookup" /\ log[j].key = log[i].key
          /\ log[j].src # log[i].src
          /\ log[k].ev = "request" /\ log[k].src = log[j].src

-----------------------------------------------------------------------------
(* C29 *)

\* the line holds an initialize or a tools/list request
IsStatic(n) ==
    /\ Decodes(n)
    /\ MsgOf(n).value = "object"
    /\ MsgOf(n).mkind = "string"
    /\ MsgOf(n).method \in {"initialize", "tools/list"}

\* C29: initialize and tools/list are pure: such a request looks nothing up,
\* makes no backend request and stores nothing, its reply is the static
\* result of its method, whatever the state, and the buffer is what the
\* input alone makes it; a 'data' event whose lines are all of this kind
\* leaves the cache and the suspended handlers as they are.
C29_Pure ==
    /\ [](\A n \in LineNos :
            IsStatic(n) =>
                /\ Events(n, {"lookup", "delete", "request", "complete", "set"}) = {}
                /\ \A k \in Replies(n) :
                      /\ out[k].kind = "result" /\ ~out[k].isError
                      /\ out[k].result = IF MsgOf(n).method = "initialize"
                                         THEN "initialize" ELSE "tools"
                      /\ out[k].value = 0 /\ out[k].data = <<>>)
    /\ [](exitCode = -1 => buffer = AfterLastNewline(received))
    /\ [][(/\ Len(emitted') > Len(emitted)
           /\ \A n \in (Len(emitted) + 1)..Len(emitted') :
                 /\ Parse(emitted'[n]) # 0
                 /\ Catalogue[Parse(emitted'[n])].mkind = "string"
                 /\ Catalogue[Parse(emitted'[n])].method
                        \in {"initialize", "tools/list"})
              => cache' = cache /\ tasks' = tasks /\ remote' = remote]_vars

\* C29 witness: a tools/list has its reply while the cache holds an entry
C29_Witness ==
    /\ DOMAIN cache # {}
    /\ \E n \in LineNos :
          /\ IsStatic(n) /\ MsgOf(n).method = "tools/list"
          /\ Replies(n) # {}
          /\ \E i \in 1..Len(log) : log[i].ev = "set" /\ log[i].src < n

-----------------------------------------------------------------------------
(* C30 *)

\* C30 as claimed: one search tries each kind of query at most once, and so
\* makes at most three backend requests, whatever the backend answers.
C30_AtMostThreeCalls ==
    \A n \in LineNos :
        IsSearch(n) =>
            /\ Cardinality(Requests(n)) <= 3
            /\ \A i, j \in 1..Len(Tried(n)) :
                  i # j => StrategyRank(Tried(n)[i]) # StrategyRank(Tried(n)[j])

====
